---- MODULE Spec2Model ----
(***************************************************************************)
(* A model of app/main.go: one run of the container launcher.              *)
(*                                                                         *)
(* The run is a strictly sequential pipeline: TempDir, registryLogin,      *)
(* fetchManifest, extractLayer per layer (one step per tar entry),         *)
(* MkdirAll + copy of the command binary, cmd.Run, exit.  The host file    *)
(* system is a function from paths (sequences of components) to nodes.     *)
(* The registry's answers, the tar stream and the child's behaviour are    *)
(* the environment: they are drawn from small sets at the step that        *)
(* consumes them.                                                          *)
(***************************************************************************)
EXTENDS Integers, Sequences, FiniteSets, TLC

\* ------------------------------------------------------------------ bounds
MaxLayers     == 2    \* layers listed by a manifest
MaxEntries    == 2    \* tar entries per layer
MaxBuf        == 2    \* size of a buffer handed to nullReader.Read

\* ------------------------------------------------------- program constants
StatusOK      == 200  \* http.StatusOK
PanicExitCode == 2    \* exit status of a Go program that dies of panic(err)

\* --------------------------------------------------------------- strings
Colon  == ":"

\* Image references given on the command line (os.Args[2]), as character
\* sequences: "n", "n:t", "n:t:t".
Images ==
  { <<"n">>,
    <<"n", ":", "t">>,
    <<"n", ":", "t", ":", "t">> }

\* strings.Split(s, sep): the substrings between the separators.
RECURSIVE Split(_, _)
Split(s, sep) ==
  IF \A i \in 1..Len(s) : s[i] # sep
  THEN <<s>>
  ELSE LET i == CHOOSE k \in 1..Len(s) :
                  s[k] = sep /\ \A j \in 1..(k - 1) : s[j] # sep
       IN  <<SubSeq(s, 1, i - 1)>> \o Split(SubSeq(s, i + 1, Len(s)), sep)

\* ----------------------------------------------------------------- paths
\* A path is the sequence of its components; <<>> is "/".
Join(a, b) == a \o b                       \* filepath.Join on clean paths
Dir(p)     == SubSeq(p, 1, Len(p) - 1)     \* filepath.Dir
Base(p)    == <<p[Len(p)]>>                \* filepath.Base
IsPrefix(a, p) == Len(a) <= Len(p) /\ SubSeq(p, 1, Len(a)) = a

Tmp == <<"tmp">>
\* ioutil.TempDir(dir, prefix): dir/prefix<random>; one run, one name.
TempDirName(d, prefix) == Join(d, <<prefix>>)

\* ----------------------------------------------------------- permissions
PermBits == {"ur", "uw", "ux", "gr", "gw", "gx", "or", "ow", "ox"}
Perm0755 == PermBits \ {"gw", "ow"}
Perm0666 == PermBits \ {"ux", "gx", "ox"}
Perm0700 == {"ur", "uw", "ux"}
ModePerm == PermBits                       \* os.ModePerm, 0777
Umasks   == {{}, {"gw", "ow"}}             \* the process umask: 0 or 022
ExecBits == {"ux", "gx", "ox"}

\* ------------------------------------------------------------ file system
DirNode(mode)           == [kind |-> "dir", content |-> <<>>, mode |-> mode]
FileNode(content, mode) == [kind |-> "file", content |-> content, mode |-> mode]

HostBinary == <<0>>                        \* the bytes of the host's command binary
Commands   == { <<"bin", "echo">>, <<"bin", "nope">> }

HostFS ==
  (<<>> :> DirNode(Perm0755))
    @@ (Tmp :> DirNode(ModePerm))
    @@ (<<"bin">> :> DirNode(Perm0755))
    @@ (<<"bin", "echo">> :> FileNode(HostBinary, Perm0755))

Exists(f, p) == p \in DOMAIN f             \* os.Stat(p) returns no error
IsDir(f, p)  == Exists(f, p) /\ f[p].kind = "dir"

\* os.RemoveAll(p): p and everything below it.
RemoveAll(f, p) == [q \in {x \in DOMAIN f : ~IsPrefix(p, x)} |-> f[q]]

\* os.MkdirAll(p, perm): nil when p is a directory, an error when p or an
\* ancestor is a file, else the missing directories are created.
RECURSIVE MkdirAll(_, _, _, _)
MkdirAll(f, p, perm, um) ==
  IF Exists(f, p)
  THEN [fs |-> f, err |-> f[p].kind # "dir"]
  ELSE LET r == MkdirAll(f, Dir(p), perm, um)
       IN  IF r.err THEN r
           ELSE [fs |-> r.fs @@ (p :> DirNode(perm \ um)), err |-> FALSE]

\* os.OpenFile(p, O_CREATE|O_RDWR, perm): an existing file is opened as it
\* is (content and mode kept), a missing one is created empty.
OpenFileCreateRdwr(f, p, perm, um) ==
  IF Exists(f, p)
  THEN [fs |-> f, err |-> f[p].kind # "file"]
  ELSE IF Exists(f, Dir(p)) /\ f[Dir(p)].kind = "dir"
       THEN [fs |-> f @@ (p :> FileNode(<<>>, perm \ um)), err |-> FALSE]
       ELSE [fs |-> f, err |-> TRUE]

\* io.Copy(f, tr) on a file opened at offset 0: the bytes written replace
\* the first Len(bytes) bytes, whatever lies beyond stays.
WriteAtStart(old, bytes) ==
  IF Len(bytes) >= Len(old) THEN bytes
  ELSE bytes \o SubSeq(old, Len(bytes) + 1, Len(old))

\* os.Create(p): O_RDWR|O_CREATE|O_TRUNC, 0666.
Create(f, p, um) ==
  IF Exists(f, p)
  THEN IF f[p].kind = "file"
       THEN [fs |-> [f EXCEPT ![p].content = <<>>], err |-> FALSE]
       ELSE [fs |-> f, err |-> TRUE]
  ELSE IF Exists(f, Dir(p)) /\ f[Dir(p)].kind = "dir"
       THEN [fs |-> f @@ (p :> FileNode(<<>>, Perm0666 \ um)), err |-> FALSE]
       ELSE [fs |-> f, err |-> TRUE]

\* copy(src, dst)
copy(f, src, dst, um) ==
  IF ~Exists(f, src) THEN [fs |-> f, err |-> TRUE]
  ELSE LET c == Create(f, dst, um)
       IN  IF c.err THEN c
           ELSE IF f[src].kind # "file" THEN [fs |-> c.fs, err |-> TRUE]
           ELSE [fs  |-> [c.fs EXCEPT ![dst] = FileNode(f[src].content, f[src].mode)],
                 err |-> FALSE]

\* ------------------------------------------------------------- tar stream
\* contents of regular entries, as byte sequences of different lengths
Contents  == { <<1, 2>>, <<3>>, <<>> }
TarNames  == { <<"bin">>, <<"bin", "echo">> }
TarModes  == {Perm0755, Perm0666}
NoContent == <<>>

\* tar headers with the content that follows them
Headers ==
  [name : TarNames, typeflag : {"dir", "other"}, content : {NoContent}, mode : {Perm0755}]
    \cup [name : TarNames, typeflag : {"reg"}, content : Contents, mode : TarModes]

\* extractDir with the test of os.Stat's error inverted: the directory is
\* made when it exists, and an existing one is refused (os.Mkdir).
extractDirInverted(f, target, um) ==
  IF Exists(f, target)
  THEN [fs |-> f, err |-> TRUE]
  ELSE MkdirAll(f, target, Perm0755, um)

\* case tar.TypeDir
extractDir(f, target, um) ==
  IF Exists(f, target)
  THEN [fs |-> f, err |-> FALSE]
  ELSE MkdirAll(f, target, Perm0755, um)

\* case tar.TypeReg
extractReg(f, target, h, um) ==
  LET o == OpenFileCreateRdwr(f, target, h.mode, um)
  IN  IF o.err THEN o
      ELSE [fs  |-> [o.fs EXCEPT ![target].content = WriteAtStart(@, h.content)],
            err |-> FALSE]

\* one iteration of extractLayer's loop over the tar entries
extractEntry(f, rootDir, h, um) ==
  LET target == Join(rootDir, h.name)
  IN  CASE h.typeflag = "dir" -> extractDir(f, target, um)
        [] h.typeflag = "reg" -> extractReg(f, target, h, um)
        [] OTHER              -> [fs |-> f, err |-> FALSE]

\* ------------------------------------------------------------- registry
Responses ==
  { [neterr |-> FALSE, status |-> 200, valid |-> TRUE],
    [neterr |-> FALSE, status |-> 200, valid |-> FALSE],
    [neterr |-> FALSE, status |-> 404, valid |-> TRUE],
    [neterr |-> FALSE, status |-> 500, valid |-> TRUE],
    [neterr |-> TRUE,  status |-> 0,   valid |-> FALSE] }

\* registryLogin's result on a response: an error or the token
registryLoginErr(resp) ==
  resp.neterr \/ resp.status # StatusOK \/ ~resp.valid

\* fetchManifest's tag: imageSplit[1], which does not exist when the
\* reference holds no colon (index out of range: a run-time panic).
fetchManifestPanics(img) == Len(Split(img, Colon)) < 2
fetchManifestTag(img)    == Split(img, Colon)[2]
fetchManifestErr(resp) ==
  resp.neterr \/ resp.status # StatusOK \/ ~resp.valid

\* extractLayerErr without the test of the status code
extractLayerErrNoStatus(resp) ==
  resp.neterr \/ ~resp.valid

\* extractLayer's result on the blob response, before the archive is read;
\* a body that is no gzip stream fails gzip.NewReader.
extractLayerErr(resp) ==
  resp.neterr \/ resp.status # StatusOK \/ ~resp.valid

\* What the run did, in order: a request to the registry with its answer, or
\* a stage of main that took place (an entry extracted, the binary copied,
\* the child started).
NoResp == [neterr |-> FALSE, status |-> 0, valid |-> FALSE]
Event(kind, name, ref, resp) ==
  [kind |-> kind, name |-> name, ref |-> ref, resp |-> resp]
Step(kind) ==
  [kind |-> kind, name |-> <<>>, ref |-> <<>>, resp |-> NoResp]

\* ---------------------------------------------------------------- child
ExitCodes == {0, 1, 7, 255}
ChildOutcomes ==
  [kind : {"exit"}, code : ExitCodes] \cup {[kind |-> "signal", code |-> -1]}
NoOutcome == [kind |-> "none", code |-> -1]

\* cmd.Run's error for a child that was started: nil for exit code 0,
\* else an *exec.ExitError whose ExitCode() is the code (-1 for a signal).
cmdRunErr(o) ==
  IF o.kind = "exit" /\ o.code = 0
  THEN [kind |-> "nil", code |-> 0]
  ELSE [kind |-> "ExitError", code |-> o.code]
StartErr == [kind |-> "other", code |-> 0]

\* mainAfterRun exiting with a fixed code instead of the child's
mainAfterRunFixedCode(err) ==
  IF err.kind = "ExitError"
  THEN [how |-> "os.Exit", code |-> 1]
  ELSE [how |-> "return", code |-> 0]

\* How main ends after cmd.Run returned err.
mainAfterRun(err) ==
  IF err.kind = "ExitError"
  THEN [how |-> "os.Exit", code |-> err.code % 256]
  ELSE [how |-> "return", code |-> 0]

\* nullReader.Read(p), for len(p) = n
nullReaderRead(n) == [n |-> n, err |-> "nil"]
NoRead == [n |-> -1, err |-> "none"]

None == [kind |-> "none", content |-> <<>>, mode |-> {}]
NoWrite == [first |-> 0, last |-> 0, content |-> <<>>, mode |-> {}]

\* ----------------------------------------------------------------- state
VARIABLES
  pc,         \* where main is
  image,      \* os.Args[2]
  command,    \* os.Args[3]
  umask,      \* the process umask
  fs,         \* the host file system
  dir,        \* main's dir: what TempDir returned
  chrootRoot, \* main's chrootRoot
  deferred,   \* whether defer os.RemoveAll(dir) is registered
  events,     \* history: registry requests and stages, in order
  nLayers,    \* len(manifest.Layers)
  layerIdx,   \* layers fully extracted
  entryIdx,   \* entries of the current layer extracted
  lastw,      \* history: per tar name, the first and the last layer that wrote it as a regular file
  dirAgain,   \* history: the last entry handled was a directory entry whose directory existed
  preCopy,    \* history: the node at the command's path in the root before copy
  spawned,    \* whether the child was started
  child,      \* how the child ended
  lastRead,   \* result of the last read of cmd.Stdin
  exitCode    \* the tool's exit status, -1 while it runs

vars == <<pc, image, command, umask, fs, dir, chrootRoot, deferred, events,
          nLayers, layerIdx, entryIdx, lastw, dirAgain, preCopy, spawned, child,
          lastRead, exitCode>>

Init ==
  /\ pc = "start"
  /\ image \in Images
  /\ command \in Commands
  /\ umask \in Umasks
  /\ fs = HostFS
  /\ dir = <<>>
  /\ chrootRoot = <<>>
  /\ deferred = FALSE
  /\ events = <<>>
  /\ nLayers = 0
  /\ layerIdx = 0
  /\ entryIdx = 0
  /\ lastw = [n \in TarNames |-> NoWrite]
  /\ dirAgain = FALSE
  /\ preCopy = None
  /\ spawned = FALSE
  /\ child = NoOutcome
  /\ lastRead = NoRead
  /\ exitCode = -1

\* The deferred calls run when main returns or panics: os.RemoveAll(dir).
RunDeferred(f) == IF deferred THEN RemoveAll(f, dir) ELSE f

\* panic(err): the deferred calls run, the process dies with status 2.
Panic(f) ==
  /\ pc' = "exited"
  /\ fs' = RunDeferred(f)
  /\ exitCode' = PanicExitCode

\* main returns: the deferred calls run, the process exits with status 0.
Return(f) ==
  /\ pc' = "exited"
  /\ fs' = RunDeferred(f)
  /\ exitCode' = 0

\* os.Exit(code): the process exits at once, deferred calls do not run.
OsExit(f, code) ==
  /\ pc' = "exited"
  /\ fs' = f
  /\ exitCode' = code

\* dir, err := ioutil.TempDir("/tmp", "docker"); defer os.RemoveAll(dir);
\* chrootRoot := filepath.Join("/tmp", dir)
TempDir ==
  /\ pc = "start"
  /\ \/ /\ Panic(fs)
        /\ UNCHANGED <<dir, chrootRoot, deferred>>
     \/ /\ dir' = TempDirName(Tmp, "docker")
        /\ fs' = fs @@ (dir' :> DirNode(Perm0700))
        /\ deferred' = TRUE
        /\ chrootRoot' = Join(Tmp, dir')
        /\ pc' = "login"
        /\ UNCHANGED exitCode
  /\ UNCHANGED <<image, command, umask, events, nLayers, layerIdx, entryIdx,
                 lastw, dirAgain, preCopy, spawned, child, lastRead>>

\* token, err := registryLogin(image)
RegistryLogin ==
  /\ pc = "login"
  /\ \E resp \in Responses :
       /\ events' = Append(events, Event("token", Split(image, Colon)[1], <<>>, resp))
       /\ IF registryLoginErr(resp)
          THEN Panic(fs)
          ELSE pc' = "manifest" /\ UNCHANGED <<fs, exitCode>>
  /\ UNCHANGED <<image, command, umask, dir, chrootRoot, deferred, nLayers,
                 layerIdx, entryIdx, lastw, dirAgain, preCopy, spawned, child,
                 lastRead>>

\* manifest, err := fetchManifest(token, image)
FetchManifest ==
  /\ pc = "manifest"
  /\ IF fetchManifestPanics(image)
     THEN /\ Panic(fs)
          /\ UNCHANGED <<events, nLayers>>
     ELSE \E resp \in Responses, n \in 0..MaxLayers :
            /\ events' = Append(events,
                 Event("manifest", Split(image, Colon)[1], fetchManifestTag(image), resp))
            /\ IF fetchManifestErr(resp)
               THEN Panic(fs) /\ UNCHANGED nLayers
               ELSE /\ pc' = "layers"
                    /\ nLayers' = n
                    /\ UNCHANGED <<fs, exitCode>>
  /\ UNCHANGED <<image, command, umask, dir, chrootRoot, deferred, layerIdx,
                 entryIdx, lastw, dirAgain, preCopy, spawned, child, lastRead>>

\* extractLayer(token, image, layer.Digest, chrootRoot), up to the tar reader
ExtractLayerRequest ==
  /\ pc = "layers"
  /\ layerIdx < nLayers
  /\ \E resp \in Responses :
       /\ events' = Append(events,
            Event("blob", Split(image, Colon)[1], <<layerIdx + 1>>, resp))
       /\ IF extractLayerErr(resp)
          THEN Panic(fs)
          ELSE pc' = "tar" /\ UNCHANGED <<fs, exitCode>>
  /\ UNCHANGED <<image, command, umask, dir, chrootRoot, deferred, nLayers,
                 layerIdx, entryIdx, lastw, dirAgain, preCopy, spawned, child,
                 lastRead>>

\* extractLayer's loop: header, err := tr.Next() and the switch on its type
TarNext ==
  /\ pc = "tar"
  /\ \/ \* io.EOF: the layer is done
        /\ pc' = "layers"
        /\ layerIdx' = layerIdx + 1
        /\ entryIdx' = 0
        /\ UNCHANGED <<fs, exitCode, events, lastw, dirAgain>>
     \/ \* a damaged archive
        /\ Panic(fs)
        /\ UNCHANGED <<layerIdx, entryIdx, events, lastw, dirAgain>>
     \/ \E h \in Headers :
          LET r == extractEntry(fs, chrootRoot, h, umask)
          IN  /\ entryIdx < MaxEntries
              /\ dirAgain' = (h.typeflag = "dir" /\ IsDir(fs, Join(chrootRoot, h.name)))
              /\ IF r.err
                 THEN /\ Panic(r.fs)
                      /\ UNCHANGED <<layerIdx, entryIdx, events, lastw>>
                 ELSE /\ fs' = r.fs
                      /\ entryIdx' = entryIdx + 1
                      /\ events' = Append(events, Step("entry"))
                      /\ lastw' =
                           IF h.typeflag = "reg"
                           THEN [lastw EXCEPT ![h.name] =
                                   [first   |-> IF @.first = 0 THEN layerIdx + 1 ELSE @.first,
                                    last    |-> layerIdx + 1,
                                    content |-> h.content,
                                    mode    |-> h.mode]]
                           ELSE lastw
                      /\ UNCHANGED <<pc, layerIdx, exitCode>>
  /\ UNCHANGED <<image, command, umask, dir, chrootRoot, deferred, nLayers,
                 preCopy, spawned, child, lastRead>>

\* os.MkdirAll(chrootCommandDir, os.ModePerm); copy(command, chrootCommand)
RootPrepare ==
  /\ pc = "layers"
  /\ layerIdx = nLayers
  /\ LET commandDir       == Dir(command)
         commandName      == Base(command)
         chrootCommandDir == Join(chrootRoot, commandDir)
         chrootCommand    == Join(chrootCommandDir, commandName)
         m == MkdirAll(fs, chrootCommandDir, ModePerm, umask)
         c == copy(m.fs, command, chrootCommand, umask)
     IN  /\ preCopy' = IF Exists(fs, chrootCommand) THEN fs[chrootCommand] ELSE None
         /\ IF m.err
            THEN Panic(m.fs) /\ UNCHANGED events
            ELSE IF c.err
            THEN Panic(c.fs) /\ UNCHANGED events
            ELSE /\ fs' = c.fs
                 /\ pc' = "run"
                 /\ events' = Append(events, Step("copy"))
                 /\ UNCHANGED exitCode
  /\ UNCHANGED <<image, command, umask, dir, chrootRoot, deferred, nLayers,
                 layerIdx, entryIdx, lastw, dirAgain, spawned, child, lastRead>>

\* cmd.Run(), to the start of the child (chroot and CLONE_NEWPID are applied
\* by the start). A start that fails returns an error that is no ExitError.
CmdStart ==
  /\ pc = "run"
  /\ \/ /\ LET e == mainAfterRun(StartErr)
           IN  IF e.how = "os.Exit" THEN OsExit(fs, e.code) ELSE Return(fs)
        /\ UNCHANGED <<spawned, events>>
     \/ /\ Exists(fs, chrootRoot)
        /\ Exists(fs, Join(chrootRoot, command))
        /\ fs[Join(chrootRoot, command)].mode \cap ExecBits # {}
        /\ spawned' = TRUE
        /\ events' = Append(events, Step("spawn"))
        /\ pc' = "running"
        /\ UNCHANGED <<fs, exitCode>>
  /\ UNCHANGED <<image, command, umask, dir, chrootRoot, deferred, nLayers,
                 layerIdx, entryIdx, lastw, dirAgain, preCopy, child, lastRead>>

\* While the child runs, cmd.Stdin is read and what it delivers is written
\* to the child's standard input.
StdinRead ==
  /\ pc = "running"
  /\ \E n \in 0..MaxBuf :
       lastRead' = nullReaderRead(n)
  /\ UNCHANGED <<pc, image, command, umask, fs, dir, chrootRoot, deferred,
                 events, nLayers, layerIdx, entryIdx, lastw, dirAgain, preCopy,
                 spawned, child, exitCode>>

\* cmd.Run() returns once the child has ended; main exits accordingly.
ChildEnds ==
  /\ pc = "running"
  /\ \E o \in ChildOutcomes :
       /\ child' = o
       /\ LET e == mainAfterRun(cmdRunErr(o))
          IN  IF e.how = "os.Exit" THEN OsExit(fs, e.code) ELSE Return(fs)
  /\ UNCHANGED <<image, command, umask, dir, chrootRoot, deferred, events,
                 nLayers, layerIdx, entryIdx, lastw, dirAgain, preCopy, spawned,
                 lastRead>>

Next ==
  \/ TempDir
  \/ RegistryLogin
  \/ FetchManifest
  \/ ExtractLayerRequest
  \/ TarNext
  \/ RootPrepare
  \/ CmdStart
  \/ StdinRead
  \/ ChildEnds

Spec == Init /\ [][Next]_vars

\* ================================================================ claims
RegistryKinds == {"token", "manifest", "blob"}
Exited == pc = "exited"
\* the node at the command's path inside the assembled root
ChrootCommand == Join(chrootRoot, command)
\* all layers of the manifest are materialized, the Root Preparer is next
LayersDone == pc = "layers" /\ layerIdx = nLayers
\* registryLogin returned a token, so main went on to call fetchManifest
FetchManifestCalled ==
  /\ pc \notin {"start", "login", "manifest"}
  /\ events # <<>>
  /\ ~registryLoginErr(events[1].resp)
Latest == <<"l", "a", "t", "e", "s", "t">>
\* the tag the reference names: what follows the colon, "latest" without one
ExpectedTag(img) ==
  IF \A i \in 1..Len(img) : img[i] # Colon
  THEN Latest
  ELSE LET i == CHOOSE k \in 1..Len(img) : img[k] = Colon
       IN  SubSeq(img, i + 1, Len(img))
ColonCount(img) == Cardinality({i \in 1..Len(img) : img[i] = Colon})

\* C1: once the tool's process has exited, on whatever path, the temporary
\* directory allocated at the start of the run no longer exists.
C1_TempDirRemovedOnExit ==
  (Exited /\ deferred) => ~Exists(fs, dir)

\* C2: when the child was started and ends normally with exit code N, the
\* tool's own exit code is N.
C2_ExitCodePropagated ==
  (Exited /\ spawned /\ child.kind = "exit") => exitCode = child.code

\* C2 witness: the child exited with 7 and so did the tool.
C2_Witness ==
  Exited /\ spawned /\ child = [kind |-> "exit", code |-> 7] /\ exitCode = 7

\* C3: for a reference name:tag fetchManifest requests the manifest of tag,
\* for a reference without a colon it requests "latest"; the request is
\* issued in both cases.
C3_TagRequested ==
  (FetchManifestCalled /\ ColonCount(image) <= 1) =>
    \E i \in 1..Len(events) :
      /\ events[i].kind = "manifest"
      /\ events[i].ref = ExpectedTag(image)

\* C4: once all layers are materialized, a regular-file path written by two
\* layers holds exactly the later layer's bytes and the later layer's
\* permission bits (as the umask lets them through).
C4_LaterLayerWins ==
  LayersDone =>
    \A n \in TarNames :
      lastw[n].first < lastw[n].last =>
        /\ Exists(fs, Join(chrootRoot, n))
        /\ fs[Join(chrootRoot, n)] = FileNode(lastw[n].content, lastw[n].mode \ umask)

\* C5: an answer with a status other than 200 from the token, manifest or
\* blob endpoint is the last thing the run does: the run has aborted, nothing
\* was requested, extracted or copied after it and no child was started.
C5_Non200Aborts ==
  \A i \in 1..Len(events) :
    (/\ events[i].kind \in RegistryKinds
     /\ ~events[i].resp.neterr
     /\ events[i].resp.status # StatusOK) =>
       /\ i = Len(events)
       /\ Exited
       /\ exitCode = PanicExitCode
       /\ ~spawned

\* C5 witness: the blob endpoint answered 404 for the second layer, after
\* the first layer was extracted, and the run has aborted.
C5_Witness ==
  /\ Exited
  /\ layerIdx = 1
  /\ events # <<>>
  /\ events[Len(events)].kind = "blob"
  /\ events[Len(events)].resp.status = 404
  /\ \E i \in 1..Len(events) : events[i].kind = "entry"

\* C6: when the command could not be started (no child exists), the tool
\* does not end with exit code 0.
C6_LaunchFailureIsFailure ==
  (/\ Exited
   /\ ~spawned
   /\ events # <<>>
   /\ events[Len(events)].kind = "copy") => exitCode # 0

\* C7: every read of the child's input source delivers zero bytes and
\* reports end-of-input.
C7_StdinAtEndOfInput ==
  lastRead # NoRead => (lastRead.n = 0 /\ lastRead.err = "EOF")

\* C8: when the layers provided an executable at the command's path, the
\* Root Preparer leaves its content and mode as they were.
C8_LayerBinaryKept ==
  (/\ pc \in {"run", "running"}
   /\ preCopy.kind = "file"
   /\ preCopy.mode \cap ExecBits # {}) => fs[ChrootCommand] = preCopy

\* C9: while a layer is being unpacked, a directory entry whose directory
\* exists returns no error and changes nothing, and a directory entry that
\* was applied without error can be applied again with the same result.
C9_DirEntryIdempotent ==
  pc = "tar" =>
    \A n \in TarNames :
      LET h == [name |-> n, typeflag |-> "dir", content |-> NoContent, mode |-> Perm0755]
          r == extractEntry(fs, chrootRoot, h, umask)
      IN  /\ IsDir(fs, Join(chrootRoot, n)) => (~r.err /\ r.fs = fs)
          /\ ~r.err => extractEntry(r.fs, chrootRoot, h, umask) = r

\* C9 witness: the entry just handled was a directory entry for a directory
\* that existed, here one that holds a file, and the unpacking goes on.
C9_Witness ==
  /\ pc = "tar"
  /\ dirAgain
  /\ IsDir(fs, Join(chrootRoot, <<"bin">>))
  /\ Exists(fs, Join(chrootRoot, <<"bin", "echo">>))
  /\ fs[Join(chrootRoot, <<"bin", "echo">>)].kind = "file"

\* C10: the assembled root is the temporary directory that was allocated
\* and that the deferred removal deletes, so everything the run wrote lies
\* under that directory.
C10_RootIsTempDir ==
  deferred =>
    /\ chrootRoot = dir
    /\ \A p \in DOMAIN fs \ DOMAIN HostFS : IsPrefix(dir, p)

====
